---- MODULE Spec2Model ----
(***************************************************************************)
(* Model of simsym.py, the symbolic execution engine: the path scheduler   *)
(* (symbolic_apply, __symbolic_apply_loop, SBool.__nonzero__, assume), the *)
(* anonymous-name counter, and the compound layer (SStructBase, SMapBase). *)
(*                                                                         *)
(* The function under exploration, fn, is a deterministic straight-line    *)
(* program with early returns: a sequence of operations, each of which is  *)
(* one call into the engine.  The graph nodes carried in schedule entries  *)
(* are a debugging side channel and are left out: an entry is its choice.  *)
(***************************************************************************)
EXTENDS Integers, Sequences, FiniteSets, TLC

\* ---------------------------------------------------------------- bounds

\* Longest function body (number of engine operations on one path).
MaxOps == 2
\* Number of compound operations in one run of SpecCompound.
MaxCompoundOps == 4
\* Cap on the global anonymous-name counter anon_idx.
MaxAnonIdx == 4
\* Number of explorations started while another one has not finished.
MaxNested == 1
\* Longest operand list or tuple handed to a logical helper.
MaxExprs == 2
MaxConsumerOps == 1

\* ----------------------------------------------------- terms and solver

\* Names of the symbolic Bool arguments handed to fn (created by the caller
\* with SBool.var(name) before symbolic_apply).  "u", "w", "v", "k" stand for
\* terms on which the solver gives up: see Level.  "k" stands for a formula
\* that holds under every assignment.
InputNames == {"x", "y", "u", "w", "v", "k"}

\* A z3 constant is identified by its name, "%s%d" % (base, idx) for an
\* anonymous one, modelled as the pair <<base, idx>>; a user-named one is
\* <<name, 0>>.
NamedConst(n) == <<n, 0>>

anon_name(idx) == <<"anon", idx + 1>>

\* z3 Boolean terms: a constant, its negation, or a Boolean value.
Lit(c, pos) == [k |-> "lit", v |-> c, pos |-> pos]

BoolVal(b) == [k |-> "val", v |-> <<"", 0>>, pos |-> b]

\* z3.Not(t)
Not(t) == [t EXCEPT !.pos = ~t.pos]

ConstsOf(as) == {as[i].v : i \in {j \in DOMAIN as : as[j].k = "lit"}}

Holds(t, a) ==
  IF t.k = "val" \/ t.v[1] = "k" THEN t.pos ELSE (t.v \in a) = t.pos

\* Whether some assignment of the constants satisfies every assertion.
Satisfiable(as) == \E a \in SUBSET ConstsOf(as) : \A i \in DOMAIN as : Holds(as[i], a)

\* How hard a term is for the solver: 0 decided by the incremental check,
\* 1 unknown incrementally but decided by a fresh solver, 2 unknown to both.
Level(t) ==
  IF t.k = "val" THEN 0
  ELSE IF t.v[1] = "u" /\ t.pos THEN 1
  ELSE IF t.v[1] = "w" /\ t.pos THEN 2
  ELSE IF t.v[1] = "k" /\ t.pos THEN 2
  ELSE IF t.v[1] = "v" /\ ~t.pos THEN 2
  ELSE 0

Truth(as) == IF Satisfiable(as) THEN "sat" ELSE "unsat"

\* solver.check() on the solver that has been pushed and popped.
IncrementalCheck(as) ==
  IF \E i \in DOMAIN as : Level(as[i]) >= 1 THEN "unknown" ELSE Truth(as)

\* s2 = z3.Solver(); s2.add(*solver.assertions()); s2.check()
IsolatedCheck(as) ==
  IF \E i \in DOMAIN as : Level(as[i]) >= 2 THEN "unknown" ELSE Truth(as)

\* The check of one direction in SBool.__nonzero__: retried on a fresh
\* solver when the incremental answer is unknown.
CheckWithRetry(as) ==
  IF IncrementalCheck(as) = "unknown" THEN IsolatedCheck(as) ELSE IncrementalCheck(as)

\* ------------------------------------------------------------- functions

\* One operation of fn.  ret says on which outcome of a Bool observation
\* fn returns at once ("no": it goes on to the next operation).
\*   bool     if <named Bool>: ...
\*   anon     if SBool.var(): ...      (a fresh anonymous Bool, observed)
\*   assume   assume(<term>)           (t is the asserted term)
\*   pybool   if <concrete Python bool>: ...
\*   var      SBool.var("z")
\*   raise    raise ValueError
NoTerm == BoolVal(TRUE)

BoolOps ==
  {[op |-> "bool", t |-> Lit(NamedConst("x"), TRUE), ret |-> r] : r \in {"no", "T", "F"}}
  \cup {[op |-> "bool", t |-> Lit(NamedConst(n), TRUE), ret |-> "no"] : n \in {"y", "u", "w", "v", "k"}}

AssumeOps ==
  {[op |-> "assume", t |-> e, ret |-> "no"] :
     e \in {Lit(NamedConst("x"), TRUE), Lit(NamedConst("x"), FALSE),
            Lit(NamedConst("w"), TRUE), Lit(NamedConst("u"), TRUE),
            BoolVal(FALSE), BoolVal(TRUE)}}

OtherOps ==
  {[op |-> o, t |-> NoTerm, ret |-> "no"] : o \in {"anon", "pybool", "var", "raise"}}

Ops == BoolOps \cup AssumeOps \cup OtherOps

Fns == UNION {[1..n -> Ops] : n \in 0..MaxOps}

\* Functions that create no anonymous constant.
NamedFns == UNION {[1..n -> Ops \ {o \in Ops : o.op = "anon"}] : n \in 0..MaxOps}

\* Functions with a side effect that outlives a path: fn counts its own
\* invocations in a global of its module.
\*   boolnd   if (<t> if calls == 1 else x): ...
\* observes the named Bool t on fn's first invocation and the Bool x on
\* every later one.
NdOps ==
  {[op |-> "bool", t |-> Lit(NamedConst(n), TRUE), ret |-> "no"] : n \in {"x", "y"}}
  \cup {[op |-> "boolnd", t |-> Lit(NamedConst("y"), TRUE), ret |-> "no"]}
  \cup {[op |-> "raise", t |-> NoTerm, ret |-> "no"]}

NdFns == UNION {[1..n -> NdOps] : n \in 0..(MaxOps + 1)}

\* ------------------------------------------------------------------ state

VARIABLES
  fn,                     \* the function under exploration
  pc,                     \* index of fn's next operation on the current path
  gen,                    \* the symbolic_apply generator: "new", "running", "yielded", "done"
  outcome,                \* how the generator ended: "none", "exhausted", "closed", "raised"
  results,                \* the SymbolicApplyResults yielded so far
  solver,                 \* <<>> for None, <<assertions>> for a z3.Solver
  schedq, cursched, curschedidx, curgraph,
  var_constructors, constTypes, anon_idx,
  init_var_constructors,  \* symbolic_apply's local copy
  forkq, curfork,         \* history: the decision point and assertions at which each schedule was cloned
  nqueued,                \* history: the number of calls of queue_schedule
  nstarted,               \* history: the number of invocations of fn (paths started)
  run, prevresults,       \* history: "first" or "second" run, and the first run's results
  prevoutcome,            \* history: how the first run ended
  nestedlog,              \* history: what became of each symbolic_apply started during another
  \* the compound layer: see "compounds" below
  sheap,                  \* the struct dicts "Dx" and "Dyf", by identity
  yf,                     \* the dict that y's dict holds for the field f
  md, x2, mm,             \* the compounds of the maps m, x2 and mm
  nops,                   \* number of compound operations done
  linked,                 \* history: how y.f <- x was done, "no" if it was not
  storedAt,               \* history: the indices i with m[i] <- x done
  expectX, expectYF, expectM, expectMM, \* history: the values by copy semantics
  \* the logical helpers: see "logical helpers" below
  helper, operands,       \* history: the helper called last and its operands
  hresult                 \* what it returned

vars == <<fn, pc, gen, outcome, results, solver, schedq, cursched, curschedidx,
          curgraph, var_constructors, constTypes, anon_idx, init_var_constructors,
          forkq, curfork, nqueued, nstarted, run, prevresults, prevoutcome, nestedlog,
          sheap, yf, md, x2, mm, nops, linked, storedAt,
          expectX, expectYF, expectM, expectMM, helper, operands, hresult>>

\* The variables of the scheduler and those of the compound layer.
svars == <<fn, pc, gen, outcome, results, solver, schedq, cursched, curschedidx,
           curgraph, var_constructors, constTypes, anon_idx, init_var_constructors,
           forkq, curfork, nqueued, nstarted, run, prevresults, prevoutcome,
           nestedlog>>

cvars == <<sheap, yf, md, x2, mm, nops, linked, storedAt,
           expectX, expectYF, expectM, expectMM>>

hvars == <<helper, operands, hresult>>

None == <<>>

NewSolver == <<(<<>>)>>

Assertions(s) == s[1]

\* solver.add(t)
SolverAdd(s, t) == <<Append(s[1], t)>>

\* A schedule is the sequence of its entries' choices: "T", "F", "None", or
\* an UncheckableConstraintError object, "UnchkT" when it was made for the
\* term and "UnchkF" when it was made for the term's negation.
Markers == {"UnchkT", "UnchkF"}

\* The root schedule:
RootSched == <<"None">>

\* History kept with a schedule: the index of the decision point at which it
\* was cloned (0 for the root schedule) and the assertions held there.
NoFork == [at |-> 0, as |-> <<>>]

\* ------------------------------------------------------------ compounds

\* S = tstruct(a = SInt, b = SInt); T = tstruct(f = S); M = tmap(SInt, S);
\* M2 = tmap(SInt, SInt); MM = tmap(SInt, M2).  The program holds
\*   x = S.var("x"), y = T.var("y"), m = M.constVal(...), x2 = M2.constVal(0),
\*   mm = MM.constVal(x2).
\* A z3 term is modelled by its value; a z3 array by a function on Idx.
\* A compound of a struct is a Python dict: an object with an identity,
\* kept in sheap.  "Dx" is the dict built by S.var("x"), "Dyf" the dict built
\* for y.f by T.var("y").
Fields == {"a", "b"}

Idx == {"i", "j"}

Vals == {0, 1}

\* The cell val[0] of x's lvalue: every setter call stores the dict it got
\* from the getter, so the cell never holds another dict.
XCell == "Dx"

ZeroStruct == [k \in Fields |-> 0]

\* Mutant: the value is stored at every index.
Store_Everywhere(arr, i, v) == [j \in DOMAIN arr |-> v]

\* z3.Store(arr, i, v) and z3.Select(arr, i)
Store(arr, i, v) == [arr EXCEPT ![i] = v]

Select(arr, i) == arr[i]

\* unwrap(val) for a struct val: val._z3_value() is val._getter(), the dict
\* itself.
unwrap(cell) == cell

InitCompound ==
  /\ sheap = [d \in {"Dx", "Dyf"} |-> ZeroStruct]
  /\ yf = "Dyf"
  /\ md = [k \in Fields |-> [i \in Idx |-> 0]]
  /\ x2 = [i \in Idx |-> 0]
  /\ mm = [i \in Idx |-> [j \in Idx |-> 0]]
  /\ nops = 0
  /\ linked = "no"
  /\ storedAt = {}
  /\ expectX = ZeroStruct
  /\ expectYF = ZeroStruct
  /\ expectM = [i \in Idx |-> ZeroStruct]
  /\ expectMM = [i \in Idx |-> [j \in Idx |-> 0]]

InitScheduler(fns) ==
  /\ fn \in fns
  /\ pc = 1
  /\ gen = "new"
  /\ outcome = "none"
  /\ results = <<>>
  /\ solver = None
  /\ schedq = <<>>
  /\ cursched = <<>>
  /\ curschedidx = 0
  /\ curgraph = 0
  /\ var_constructors = InputNames
  /\ constTypes = {NamedConst(n) : n \in InputNames}
  /\ anon_idx = 0
  /\ init_var_constructors = {}
  /\ forkq = <<>>
  /\ curfork = NoFork
  /\ run = "first"
  /\ prevresults = <<>>
  /\ prevoutcome = "none"
  /\ nestedlog = <<>>
  /\ nqueued = 0
  /\ nstarted = 0

InitHelpers ==
  /\ helper = "none"
  /\ operands = <<>>
  /\ hresult = [k |-> "py", pos |-> FALSE]

Init == InitScheduler(Fns) /\ InitCompound /\ InitHelpers

\* ------------------------------------------------------- scheduler core

\* queue_schedule(s): schedq.append(s)
queue_schedule(q, s) == Append(q, s)

\* schedq.pop() takes the last element.
PopIndex(q) == Len(q)

\* Mutant: the pop throws the rest of the queue away.
Remove_All(q, i) == <<>>

Remove(q, i) == SubSeq(q, 1, i - 1) \o SubSeq(q, i + 1, Len(q))

\* Mutant: the next path inherits the solver and the type table.
StartPath_KeepsState(q, fq, vc) ==
  /\ cursched' = q[PopIndex(q)]
  /\ schedq' = Remove(q, PopIndex(q))
  /\ curfork' = fq[PopIndex(q)]
  /\ forkq' = Remove(fq, PopIndex(q))
  /\ curschedidx' = 1
  /\ constTypes' = constTypes
  /\ solver' = IF solver = None THEN NewSolver ELSE solver
  /\ var_constructors' = vc
  /\ pc' = 1
  /\ gen' = "running"
  /\ outcome' = "none"
  /\ nstarted' = nstarted + 1

\* The top of __symbolic_apply_loop's body: pop a schedule and reset the
\* per-path state.
StartPath(q, fq, vc) ==
  /\ cursched' = q[PopIndex(q)]
  /\ schedq' = Remove(q, PopIndex(q))
  /\ curfork' = fq[PopIndex(q)]
  /\ forkq' = Remove(fq, PopIndex(q))
  /\ curschedidx' = 1
  /\ constTypes' = {}
  /\ solver' = NewSolver
  /\ var_constructors' = vc
  /\ pc' = 1
  /\ gen' = "running"
  /\ outcome' = "none"
  /\ nstarted' = nstarted + 1

\* Mutant: symbolic_apply's finally block does not restore var_constructors.
FinishGen_KeepsNames(how, cs, ci, ct) ==
  /\ solver' = None
  /\ schedq' = <<>>
  /\ forkq' = <<>>
  /\ var_constructors' = var_constructors
  /\ cursched' = cs
  /\ curschedidx' = ci
  /\ constTypes' = ct
  /\ curfork' = curfork
  /\ pc' = pc
  /\ gen' = "done"
  /\ outcome' = how
  /\ nstarted' = nstarted

\* Mutant: symbolic_apply's finally block does not empty the queue.
FinishGen_KeepsQueue(how, cs, ci, ct) ==
  /\ solver' = None
  /\ schedq' = schedq
  /\ forkq' = forkq
  /\ var_constructors' = init_var_constructors
  /\ cursched' = cs
  /\ curschedidx' = ci
  /\ constTypes' = ct
  /\ curfork' = curfork
  /\ pc' = pc
  /\ gen' = "done"
  /\ outcome' = how
  /\ nstarted' = nstarted

\* Both finally blocks: the loop's (solver = None) and symbolic_apply's
\* (var_constructors restored, schedq = []).
FinishGen(how, cs, ci, ct) ==
  /\ solver' = None
  /\ schedq' = <<>>
  /\ forkq' = <<>>
  /\ var_constructors' = init_var_constructors
  /\ cursched' = cs
  /\ curschedidx' = ci
  /\ constTypes' = ct
  /\ curfork' = curfork
  /\ pc' = pc
  /\ gen' = "done"
  /\ outcome' = how
  /\ nstarted' = nstarted

\* The loop after a path has ended (solver = None by the finally block):
\* the while test, then the next path or the end of the generator.
LoopFrom(q, fq, cs, ci, ct, vc) ==
  IF Len(q) > 0 THEN StartPath(q, fq, vc) ELSE FinishGen("exhausted", cs, ci, ct)

\* Mutant: an exception of fn is swallowed like UnsatisfiablePath.
Abort_Continue(cs, ci, ct) == LoopFrom(schedq, forkq, cs, ci, ct, var_constructors)

\* except Exception: ... raise; the exception leaves both generators.
Abort(cs, ci, ct) == FinishGen("raised", cs, ci, ct)

\* symbolic_apply up to the first path: a new graph, the root schedule
\* queued, the recursion test, the copy of var_constructors.
Apply ==
  /\ curgraph' = curgraph + 1
  /\ nqueued' = nqueued + 1
  /\ LET q == queue_schedule(schedq, RootSched)
         fq == Append(forkq, NoFork)
     IN IF Len(q) # 1
        THEN \* raise Exception("Recursive symbolic_apply?"), before the try
             /\ schedq' = q
             /\ forkq' = fq
             /\ gen' = "done"
             /\ outcome' = "rejected"
             /\ nstarted' = nstarted
             /\ UNCHANGED <<solver, cursched, curfork, curschedidx, constTypes,
                            var_constructors, init_var_constructors, pc>>
        ELSE /\ init_var_constructors' = var_constructors
             /\ StartPath(q, fq, var_constructors)
  /\ UNCHANGED <<fn, anon_idx>>

\* The consumer advances a new symbolic_apply(fn) generator for the first time.
Start ==
  /\ gen = "new"
  /\ Apply
  /\ UNCHANGED <<results, run, prevresults, prevoutcome,
                 nestedlog>>
  /\ UNCHANGED cvars
  /\ UNCHANGED hvars

\* After the first generator has ended, the consumer calls
\* symbolic_apply(fn) again and advances the new generator.
Restart ==
  /\ gen = "done"
  /\ run = "first"
  /\ run' = "second"
  /\ prevresults' = results
  /\ prevoutcome' = outcome
  /\ results' = <<>>
  /\ Apply
  /\ UNCHANGED nestedlog
  /\ UNCHANGED cvars
  /\ UNCHANGED hvars

\* fn returned: the result is yielded and the generator is suspended inside
\* the try block (the finally block has not run).
Return ==
  /\ gen = "running"
  /\ pc = Len(fn) + 1
  /\ IF solver = None
     THEN \* solver.assertions() on None
          /\ Abort(cursched, curschedidx, constTypes)
          /\ UNCHANGED results
     ELSE /\ results' = Append(results, [pcond |-> Assertions(solver),
                                         sched |-> cursched,
                                         vc |-> var_constructors,
                                         ct |-> constTypes])
          /\ gen' = "yielded"
          /\ UNCHANGED <<solver, schedq, forkq, cursched, curfork, curschedidx,
                         constTypes, var_constructors, pc, outcome, nstarted>>
  /\ UNCHANGED <<fn, curgraph, anon_idx, init_var_constructors, nqueued, run, prevresults, prevoutcome,
                 nestedlog>>
  /\ UNCHANGED cvars
  /\ UNCHANGED hvars

\* The consumer asks for the next result: the finally block runs and the
\* loop goes on.
Resume ==
  /\ gen = "yielded"
  /\ LoopFrom(schedq, forkq, cursched, curschedidx, constTypes, var_constructors)
  /\ UNCHANGED <<fn, results, curgraph, anon_idx, init_var_constructors, nqueued, run, prevresults, prevoutcome,
                 nestedlog>>
  /\ UNCHANGED cvars
  /\ UNCHANGED hvars

\* The consumer stops iterating: GeneratorExit is raised at the yield.
Close ==
  /\ gen = "yielded"
  /\ FinishGen("closed", cursched, curschedidx, constTypes)
  /\ UNCHANGED <<fn, results, curgraph, anon_idx, init_var_constructors, nqueued, run, prevresults, prevoutcome,
                 nestedlog>>
  /\ UNCHANGED cvars
  /\ UNCHANGED hvars

\* ------------------------------------------------- SBool.__nonzero__

\* Mutant: the current path takes the True direction whatever its check said.
ForkChoice_AlwaysTrue(canTrue) == "T"

\* The entry appended to cursched at a fork, from the result of the check
\* of the True direction.
ForkChoice(canTrue) == IF canTrue = "sat" THEN "T" ELSE "UnchkT"

\* Mutant: the clone records the decision point as an assume would.
ForkAlternative_None(canFalse) == "None"

\* Mutant: the clone takes the True direction as well.
ForkAlternative_True(canFalse) == "T"

\* The entry appended to the clone, from the result of the check of the
\* False direction.
ForkAlternative(canFalse) == IF canFalse = "sat" THEN "F" ELSE "UnchkF"

\* Mutant: the True direction is taken whichever direction is sat.
DecidedChoice_AlwaysTrue(canTrue, canFalse) == "T"

\* The entry appended when exactly one direction is sat and the other unsat.
DecidedChoice(canTrue, canFalse) == IF canTrue = "sat" THEN "T" ELSE "F"

\* Mutant: a decided observation forks too.
Forks_AlsoDecided(canTrue, canFalse) == ~(canTrue = "unsat" /\ canFalse = "unsat")

\* Whether the observation takes both paths (the final else branch).
Forks(canTrue, canFalse) ==
  /\ ~(canTrue = "unsat" /\ canFalse = "unsat")
  /\ ~(canTrue = "sat" /\ canFalse = "unsat")
  /\ ~(canTrue = "unsat" /\ canFalse = "sat")

\* Mutant: the clone loses the root entry.
NewScheds_NoRoot(sched, canTrue, canFalse) ==
  IF Forks(canTrue, canFalse)
  THEN <<Append(Tail(sched), ForkAlternative(canFalse))>>
  ELSE <<>>

\* Mutant: the clone does not keep the entries before the decision point.
NewScheds_NoPrefix(sched, canTrue, canFalse) ==
  IF canTrue = "sat" /\ canFalse = "sat" THEN <<(<<"None", "F">>)>> ELSE <<>>

\* Mutant: the clone is not queued.
NewScheds_Dropped(sched, canTrue, canFalse) == <<>>

\* The schedules queued by one observation at the end of the schedule.
NewScheds(sched, canTrue, canFalse) ==
  IF Forks(canTrue, canFalse)
  THEN <<Append(sched, ForkAlternative(canFalse))>>
  ELSE <<>>

\* Mutant: two unsat directions are taken for a decided observation.
Extend_NoContradiction(sched, as, t) ==
  LET canTrue == CheckWithRetry(Append(as, t))
      canFalse == CheckWithRetry(Append(as, Not(t)))
  IN [contra |-> FALSE,
      sched |-> IF Forks(canTrue, canFalse)
                THEN Append(sched, ForkChoice(canTrue))
                ELSE Append(sched, DecidedChoice(canTrue, canFalse)),
      enq |-> NewScheds(sched, canTrue, canFalse)]

\* The extension of the schedule: [contra, sched, enq] for the schedule
\* sched, the assertions as and the observed term t.
Extend(sched, as, t) ==
  LET canTrue == CheckWithRetry(Append(as, t))
      canFalse == CheckWithRetry(Append(as, Not(t)))
  IN [contra |-> canTrue = "unsat" /\ canFalse = "unsat",
      sched |-> IF canTrue = "unsat" /\ canFalse = "unsat" THEN sched
                ELSE IF Forks(canTrue, canFalse)
                     THEN Append(sched, ForkChoice(canTrue))
                     ELSE Append(sched, DecidedChoice(canTrue, canFalse)),
      enq |-> NewScheds(sched, canTrue, canFalse)]

\* Mutant: a replayed observation extends the schedule too.
Extending_InReplay(sched, idx) == TRUE

\* Whether the observation is at the end of the schedule (extension) and
\* not in replay.
Extending(sched, idx) == Len(sched) = idx

\* Mutant: the term is asserted whatever the entry says.
Followed_AlwaysTerm(rv, t) == t

\* The term asserted when following schedule entry rv.
Followed(rv, t) == IF rv = "T" THEN t ELSE Not(t)

\* Where fn goes after a Bool observation that returned rv.
AfterBool(o, rv) == IF o.ret = rv THEN Len(fn) + 1 ELSE pc + 1

\* bool(t) for the SBool t, called by fn; ct is constTypes at the call.
Nonzero(o, t, ct) ==
  IF solver = None
  THEN \* get_solver() raises RuntimeError
       /\ Abort(cursched, curschedidx, ct)
       /\ UNCHANGED nqueued
  ELSE
    LET as == Assertions(solver)
        ext == IF Extending(cursched, curschedidx) THEN Extend(cursched, as, t)
               ELSE [contra |-> FALSE, sched |-> cursched, enq |-> <<>>]
        q == IF Len(ext.enq) = 1 THEN queue_schedule(schedq, ext.enq[1]) ELSE schedq
        fq == IF Len(ext.enq) = 1
              THEN Append(forkq, [at |-> curschedidx, as |-> as])
              ELSE forkq
        rv == ext.sched[curschedidx + 1]
    IN
     /\ nqueued' = nqueued + Len(ext.enq)
     /\ IF ext.contra
       THEN \* raise RuntimeError("Branch contradiction")
            Abort(cursched, curschedidx, ct)
       ELSE IF rv \in {"T", "F"}
       THEN /\ solver' = SolverAdd(solver, Followed(rv, t))
            /\ cursched' = ext.sched
            /\ curschedidx' = curschedidx + 1
            /\ schedq' = q
            /\ forkq' = fq
            /\ pc' = AfterBool(o, rv)
            /\ constTypes' = ct
            /\ UNCHANGED <<curfork, var_constructors, gen, outcome, nstarted>>
       ELSE IF rv \in Markers
       THEN \* raise rv: caught by the loop, which goes on
            LoopFrom(q, fq, ext.sched, curschedidx, ct, var_constructors)
       ELSE \* raise RuntimeError("Bad schedule entry")
            /\ q = schedq
            /\ Abort(ext.sched, curschedidx, ct)

\* fn observes one of its named Bool arguments.
ObserveBool ==
  /\ gen = "running"
  /\ pc <= Len(fn)
  /\ fn[pc].op = "bool"
  /\ Nonzero(fn[pc], fn[pc].t, constTypes)
  /\ UNCHANGED <<fn, results, curgraph, anon_idx, init_var_constructors, run, prevresults, prevoutcome,
                 nestedlog>>
  /\ UNCHANGED cvars
  /\ UNCHANGED hvars

\* The Bool that a boolnd operation observes on the current invocation.
ChangingTerm(o) == IF nstarted = 1 THEN o.t ELSE Lit(NamedConst("x"), TRUE)

\* fn observes the Bool that its invocation counter selects.
ObserveChanging ==
  /\ gen = "running"
  /\ pc <= Len(fn)
  /\ fn[pc].op = "boolnd"
  /\ Nonzero(fn[pc], ChangingTerm(fn[pc]), constTypes)
  /\ UNCHANGED <<fn, results, curgraph, anon_idx, init_var_constructors, run, prevresults, prevoutcome,
                 nestedlog>>
  /\ UNCHANGED cvars
  /\ UNCHANGED hvars

\* fn creates an anonymous Bool, SBool.var(), and observes it.
ObserveAnon ==
  /\ gen = "running"
  /\ pc <= Len(fn)
  /\ fn[pc].op = "anon"
  /\ anon_idx < MaxAnonIdx
  /\ anon_idx' = anon_idx + 1
  /\ Nonzero(fn[pc], Lit(anon_name(anon_idx), TRUE), constTypes \cup {anon_name(anon_idx)})
  /\ UNCHANGED <<fn, results, curgraph, init_var_constructors, run, prevresults, prevoutcome,
                 nestedlog>>
  /\ UNCHANGED cvars
  /\ UNCHANGED hvars

\* fn branches on a concrete Python bool: no call into the engine.
PyBool ==
  /\ gen = "running"
  /\ pc <= Len(fn)
  /\ fn[pc].op = "pybool"
  /\ pc' = pc + 1
  /\ UNCHANGED <<fn, gen, outcome, nstarted, results, solver, schedq, cursched, curschedidx,
                 curgraph, var_constructors, constTypes, anon_idx,
                 init_var_constructors, forkq, curfork, nqueued, run, prevresults,
                 prevoutcome,
                 nestedlog>>
  /\ UNCHANGED cvars
  /\ UNCHANGED hvars

\* fn creates a named variable, SBool.var("z").
NamedVar ==
  /\ gen = "running"
  /\ pc <= Len(fn)
  /\ fn[pc].op = "var"
  /\ var_constructors' = var_constructors \cup {"z"}
  /\ constTypes' = constTypes \cup {NamedConst("z")}
  /\ pc' = pc + 1
  /\ UNCHANGED <<fn, gen, outcome, nstarted, results, solver, schedq, cursched, curschedidx,
                 curgraph, anon_idx, init_var_constructors, forkq, curfork, nqueued,
                 run, prevresults, prevoutcome,
                 nestedlog>>
  /\ UNCHANGED cvars
  /\ UNCHANGED hvars

\* fn raises an exception of its own.
Raise ==
  /\ gen = "running"
  /\ pc <= Len(fn)
  /\ fn[pc].op = "raise"
  /\ Abort(cursched, curschedidx, constTypes)
  /\ UNCHANGED <<fn, results, curgraph, anon_idx, init_var_constructors, nqueued, run, prevresults, prevoutcome,
                 nestedlog>>
  /\ UNCHANGED cvars
  /\ UNCHANGED hvars

\* ------------------------------------------------------------- assume

\* Mutant: no assumption is recognised as implied.
Implied_Never(as, e) == FALSE

\* assume's first check, of Not(e): a single incremental check.
Implied(as, e) == IncrementalCheck(Append(as, Not(e))) = "unsat"

\* Mutant: the second check always answers sat.
AssumeCheck_AlwaysSat(as) == "sat"

\* assume's second check, after e has been asserted.
AssumeCheck(as) == CheckWithRetry(as)

\* fn calls assume(e).  BoolVal(TRUE) and BoolVal(FALSE) are the Python
\* values True and False.
Assume ==
  /\ gen = "running"
  /\ pc <= Len(fn)
  /\ fn[pc].op = "assume"
  /\ LET e == fn[pc].t
     IN IF e = BoolVal(TRUE)
        THEN \* e is True
             /\ pc' = pc + 1
             /\ UNCHANGED <<solver, schedq, forkq, cursched, curfork, curschedidx,
                            constTypes, var_constructors, gen, outcome, nstarted>>
        ELSE IF solver = None
        THEN Abort(cursched, curschedidx, constTypes)
        ELSE IF Implied(Assertions(solver), e)
        THEN /\ pc' = pc + 1
             /\ UNCHANGED <<solver, schedq, forkq, cursched, curfork, curschedidx,
                            constTypes, var_constructors, gen, outcome, nstarted>>
        ELSE
          LET cs == IF Len(cursched) = curschedidx
                    THEN Append(cursched, "None") ELSE cursched
              as == Append(Assertions(solver), e)
              sat == AssumeCheck(as)
          IN IF cs[curschedidx + 1] # "None"
             THEN \* assert cursched[curschedidx][0] is None
                  Abort(cs, curschedidx, constTypes)
             ELSE IF sat = "sat"
             THEN /\ solver' = SolverAdd(solver, e)
                  /\ cursched' = cs
                  /\ curschedidx' = curschedidx + 1
                  /\ pc' = pc + 1
                  /\ UNCHANGED <<schedq, forkq, curfork, constTypes,
                                 var_constructors, gen, outcome, nstarted>>
             ELSE \* UnsatisfiablePath or UncheckableConstraintError
                  LoopFrom(schedq, forkq, cs, curschedidx + 1, constTypes,
                           var_constructors)
  /\ UNCHANGED <<fn, results, curgraph, anon_idx, init_var_constructors, nqueued, run, prevresults, prevoutcome,
                 nestedlog>>
  /\ UNCHANGED cvars
  /\ UNCHANGED hvars

\* ------------------------------------------------------ specifications

Next ==
  \/ Start
  \/ ObserveBool
  \/ ObserveAnon
  \/ PyBool
  \/ NamedVar
  \/ Raise
  \/ Assume
  \/ Return
  \/ Resume
  \/ Close

Spec == Init /\ [][Next]_vars

\* A second exploration, symbolic_apply(lambda: 0), is started while the
\* first has started and not finished: by fn itself while a path is running,
\* or by the consumer between two results.  If it is let through, its caller
\* iterates it to its end.
NestedApply ==
  /\ gen \in {"running", "yielded"}
  /\ Len(nestedlog) < MaxNested
  /\ curgraph' = curgraph + 1
  /\ nqueued' = nqueued + 1
  /\ LET q == queue_schedule(schedq, RootSched)
     IN IF Len(q) # 1
        THEN \* raise Exception("Recursive symbolic_apply?"), before the try
             /\ nestedlog' = Append(nestedlog, "rejected")
             /\ schedq' = q
             /\ forkq' = Append(forkq, NoFork)
             /\ UNCHANGED <<solver, cursched, curfork, curschedidx, constTypes>>
        ELSE \* the root schedule is popped, the function returns, the result
             \* is yielded; on the next advance both finally blocks run
             /\ nestedlog' = Append(nestedlog, "yielded")
             /\ cursched' = q[PopIndex(q)]
             /\ curfork' = NoFork
             /\ curschedidx' = 1
             /\ constTypes' = {}
             /\ solver' = None
             /\ schedq' = <<>>
             /\ forkq' = <<>>
  /\ UNCHANGED <<fn, pc, gen, outcome, nstarted, results, var_constructors, anon_idx,
                 init_var_constructors, run, prevresults, prevoutcome>>
  /\ UNCHANGED cvars
  /\ UNCHANGED hvars

NextEnv == Next \/ NestedApply

SpecEnv == Init /\ [][NextEnv]_vars

\* The same, with symbolic_apply(fn) run a second time after the first
\* generator has ended.
NextTwice == Next \/ Restart

SpecTwice == Init /\ [][NextTwice]_vars

\* The exploration of a function whose observations depend on how often it
\* has been invoked.
InitNd == InitScheduler(NdFns) /\ InitCompound /\ InitHelpers

NextNd ==
  \/ Start
  \/ ObserveBool
  \/ ObserveChanging
  \/ Raise
  \/ Return
  \/ Resume
  \/ Close

SpecNd == InitNd /\ [][NextNd]_vars

\* The exploration driven to its end: the consumer keeps asking for the next
\* result (or closes the generator) and fn's operations return.
InitNamed == InitScheduler(NamedFns) /\ InitCompound /\ InitHelpers

NextNamed ==
  \/ Start
  \/ ObserveBool
  \/ PyBool
  \/ NamedVar
  \/ Raise
  \/ Assume
  \/ Return
  \/ Resume
  \/ Close

SpecFair == InitNamed /\ [][NextNamed]_vars /\ WF_vars(NextNamed)

\* The consumer of the generator uses symbolic values itself between two
\* results: for r in symbolic_apply(fn, x, y): if x: ... / assume(x).
\* An exception raised by these calls is raised in the consumer, not in the
\* generator, which stays suspended at its yield.
ConsumerFns ==
  UNION {[1..n -> {[op |-> "bool", t |-> Lit(NamedConst(m), TRUE), ret |-> "no"] :
                     m \in {"x", "y"}}] : n \in 0..MaxOps}

ConsumerTerms == {Lit(NamedConst("x"), TRUE), Lit(NamedConst("y"), TRUE)}

\* bool(t) called by the consumer while the generator is suspended.
ConsumerObserve ==
  /\ gen = "yielded"
  /\ Len(cursched) <= MaxOps + MaxConsumerOps
  /\ \E t \in ConsumerTerms :
       IF solver = None
       THEN \* get_solver() raises RuntimeError
            UNCHANGED <<solver, cursched, curschedidx, schedq, forkq, nqueued>>
       ELSE
         LET as == Assertions(solver)
             ext == IF Extending(cursched, curschedidx) THEN Extend(cursched, as, t)
                    ELSE [contra |-> FALSE, sched |-> cursched, enq |-> <<>>]
             q == IF Len(ext.enq) = 1 THEN queue_schedule(schedq, ext.enq[1]) ELSE schedq
             fq == IF Len(ext.enq) = 1
                   THEN Append(forkq, [at |-> curschedidx, as |-> as])
                   ELSE forkq
             rv == ext.sched[curschedidx + 1]
         IN IF ext.contra
            THEN \* raise RuntimeError("Branch contradiction")
                 UNCHANGED <<solver, cursched, curschedidx, schedq, forkq, nqueued>>
            ELSE /\ cursched' = ext.sched
                 /\ schedq' = q
                 /\ forkq' = fq
                 /\ nqueued' = nqueued + Len(ext.enq)
                 /\ IF rv \in {"T", "F"}
                    THEN /\ solver' = SolverAdd(solver, Followed(rv, t))
                         /\ curschedidx' = curschedidx + 1
                    ELSE \* raise rv, or RuntimeError("Bad schedule entry")
                         UNCHANGED <<solver, curschedidx>>
  /\ UNCHANGED <<fn, pc, gen, outcome, nstarted, results, curgraph, var_constructors,
                 constTypes, anon_idx, init_var_constructors, curfork, run,
                 prevresults, prevoutcome, nestedlog>>
  /\ UNCHANGED cvars
  /\ UNCHANGED hvars

\* assume(e) called by the consumer while the generator is suspended.
ConsumerAssume ==
  /\ gen = "yielded"
  /\ Len(cursched) <= MaxOps + MaxConsumerOps
  /\ \E e \in ConsumerTerms \cup {Not(t) : t \in ConsumerTerms} :
       IF solver = None \/ Implied(Assertions(solver), e)
       THEN \* get_solver() raises RuntimeError, or e is implied
            UNCHANGED <<solver, cursched, curschedidx>>
       ELSE
         LET cs == IF Len(cursched) = curschedidx
                   THEN Append(cursched, "None") ELSE cursched
         IN IF cs[curschedidx + 1] # "None"
            THEN \* assert cursched[curschedidx][0] is None
                 UNCHANGED <<solver, cursched, curschedidx>>
            ELSE \* e is asserted before the check that may raise
                 /\ cursched' = cs
                 /\ curschedidx' = curschedidx + 1
                 /\ solver' = SolverAdd(solver, e)
  /\ UNCHANGED <<fn, pc, gen, outcome, nstarted, results, schedq, forkq, nqueued,
                 curgraph, var_constructors, constTypes, anon_idx,
                 init_var_constructors, curfork, run, prevresults, prevoutcome,
                 nestedlog>>
  /\ UNCHANGED cvars
  /\ UNCHANGED hvars

InitConsumer == InitScheduler(ConsumerFns) /\ InitCompound /\ InitHelpers

NextConsumer ==
  \/ Start
  \/ ObserveBool
  \/ Return
  \/ Resume
  \/ Close
  \/ ConsumerObserve
  \/ ConsumerAssume

SpecConsumer == InitConsumer /\ [][NextConsumer]_vars

\* ------------------------------------------------- compound operations

\* SStructBase.__setattr__ on the dict cval returned by the getter:
\* cval[name] = unwrap(val), in place.
Setattr(h, cval, name, val) == [h EXCEPT ![cval][name] = val]

\* SMapBase.__setitem__: compound_map(Store(z3map, idx, z3val), getter(), val)
\* builds a new compound.
Setitem(compound, idx, val) ==
  [k \in DOMAIN compound |-> Store(compound[k], idx, val[k])]

\* The getter of the lvalue returned by SMapBase.__getitem__:
\* compound_map(Select(z3val, idx), getter()) builds a new compound.
Getitem(compound, idx) == [k \in DOMAIN compound |-> Select(compound[k], idx)]

Step == nops < MaxCompoundOps /\ nops' = nops + 1

\* x.name = v
SetXField ==
  /\ Step
  /\ \E name \in Fields, v \in Vals :
       /\ sheap' = Setattr(sheap, XCell, name, v)
       /\ expectX' = [expectX EXCEPT ![name] = v]
  /\ UNCHANGED <<yf, md, x2, mm, linked, storedAt, expectYF, expectM, expectMM>>
  /\ UNCHANGED svars
  /\ UNCHANGED hvars

\* y.f = x: y.__setattr__("f", x) puts unwrap(x) into y's dict.
SetYF ==
  /\ Step
  /\ yf' = unwrap(XCell)
  /\ linked' = "setattr"
  /\ expectYF' = sheap[XCell]
  /\ UNCHANGED <<sheap, md, x2, mm, storedAt, expectX, expectM, expectMM>>
  /\ UNCHANGED svars
  /\ UNCHANGED hvars

\* y = T.var("y", f = x): mkValue returns unwrap(fields.pop("f")) for f.
VarYWithX ==
  /\ Step
  /\ linked = "no"
  /\ yf' = unwrap(XCell)
  /\ linked' = "var"
  /\ expectYF' = sheap[XCell]
  /\ UNCHANGED <<sheap, md, x2, mm, storedAt, expectX, expectM, expectMM>>
  /\ UNCHANGED svars
  /\ UNCHANGED hvars

\* y.f.name = v: __setattr__ on the lvalue y.f, whose getter returns
\* y's dict entry f and whose setter is y.__setattr__("f", .).
SetYFField ==
  /\ Step
  /\ \E name \in Fields, v \in Vals :
       /\ sheap' = Setattr(sheap, yf, name, v)
       /\ expectYF' = [expectYF EXCEPT ![name] = v]
  /\ yf' = yf
  /\ UNCHANGED <<md, x2, mm, linked, storedAt, expectX, expectM, expectMM>>
  /\ UNCHANGED svars
  /\ UNCHANGED hvars

\* m[i] = x
SetMItem ==
  /\ Step
  /\ \E i \in Idx :
       /\ md' = Setitem(md, i, sheap[unwrap(XCell)])
       /\ expectM' = [expectM EXCEPT ![i] = sheap[XCell]]
       /\ storedAt' = storedAt \cup {i}
  /\ UNCHANGED <<sheap, yf, x2, mm, linked, expectX, expectYF, expectMM>>
  /\ UNCHANGED svars
  /\ UNCHANGED hvars

\* m[i].name = v: __setattr__ on the lvalue m[i], whose getter builds a
\* new dict and whose setter is m.__setitem__(i, .).
SetMItemField ==
  /\ Step
  /\ \E i \in Idx, name \in Fields, v \in Vals :
       /\ md' = Setitem(md, i, [Getitem(md, i) EXCEPT ![name] = v])
       /\ expectM' = [expectM EXCEPT ![i][name] = v]
  /\ UNCHANGED <<sheap, yf, x2, mm, linked, storedAt, expectX, expectYF, expectMM>>
  /\ UNCHANGED svars
  /\ UNCHANGED hvars

\* x2[j] = v
SetX2Item ==
  /\ Step
  /\ \E j \in Idx, v \in Vals : x2' = Store(x2, j, v)
  /\ UNCHANGED <<sheap, yf, md, mm, linked, storedAt, expectX, expectYF, expectM,
                 expectMM>>
  /\ UNCHANGED svars
  /\ UNCHANGED hvars

\* mm[i] = x2
SetMMItem ==
  /\ Step
  /\ \E i \in Idx :
       /\ mm' = Store(mm, i, x2)
       /\ expectMM' = [expectMM EXCEPT ![i] = x2]
  /\ UNCHANGED <<sheap, yf, md, x2, linked, storedAt, expectX, expectYF, expectM>>
  /\ UNCHANGED svars
  /\ UNCHANGED hvars

\* mm[i][j] = v: __setitem__ on the lvalue mm[i], whose setter is
\* mm.__setitem__(i, .).
SetMMItemItem ==
  /\ Step
  /\ \E i \in Idx, j \in Idx, v \in Vals :
       /\ mm' = Store(mm, i, Store(Select(mm, i), j, v))
       /\ expectMM' = [expectMM EXCEPT ![i][j] = v]
  /\ UNCHANGED <<sheap, yf, md, x2, linked, storedAt, expectX, expectYF, expectM>>
  /\ UNCHANGED svars
  /\ UNCHANGED hvars

NextCompound ==
  \/ SetXField
  \/ SetYF
  \/ VarYWithX
  \/ SetYFField
  \/ SetMItem
  \/ SetMItemField
  \/ SetX2Item
  \/ SetMMItem
  \/ SetMMItemItem

\* The compound layer alone: no exploration is running.
InitNoExploration == InitScheduler({<<>>}) /\ InitCompound /\ InitHelpers

SpecCompound == InitNoExploration /\ [][NextCompound]_vars

\* ------------------------------------------------------ logical helpers

\* The values handed to the helpers: a Python bool, Host(b), or an SBool,
\* modelled by the z3 term it wraps; a tuple of such values for symeq.
Host(b) == [k |-> "py", pos |-> b]

Tuple(items) == [k |-> "tuple", items |-> items]

\* isinstance(x, Symbolic)
IsSymbolic(x) == x.k \notin {"py", "tuple"}

Scalars ==
  {Host(TRUE), Host(FALSE), Lit(NamedConst("x"), TRUE), Lit(NamedConst("y"), TRUE)}

ExprLists == UNION {[1..n -> Scalars] : n \in 0..MaxExprs}

\* z3 casts a Python bool among the arguments of And, Or, Implies and == to
\* a BoolVal.
Cast(x) == IF x.k = "py" THEN BoolVal(x.pos) ELSE x

\* The SBool that wrap() makes of the z3 application of f to args.
App(f, args) == [k |-> f, args |-> [i \in DOMAIN args |-> Cast(args[i])]]

symand(exprlist) ==
  IF \E i \in DOMAIN exprlist : IsSymbolic(exprlist[i])
  THEN App("And", exprlist)
  ELSE Host(\A i \in DOMAIN exprlist : exprlist[i].pos)

symor(exprlist) ==
  IF \E i \in DOMAIN exprlist : IsSymbolic(exprlist[i])
  THEN App("Or", exprlist)
  ELSE Host(\E i \in DOMAIN exprlist : exprlist[i].pos)

symnot(e) == IF IsSymbolic(e) THEN App("Not", <<e>>) ELSE Host(~e.pos)

\* a == b on two scalars: Python's == on two bools, SExpr.__eq__ (also as
\* the reflected operation) when one of them is an SBool.
ScalarEq(a, b) ==
  IF IsSymbolic(a) THEN App("==", <<a, b>>)
  ELSE IF IsSymbolic(b) THEN App("==", <<b, a>>)
  ELSE Host(a.pos = b.pos)

\* symeq on two scalars or on two tuples of scalars.
symeq(a, b) ==
  IF a.k = "tuple" /\ b.k = "tuple"
  THEN IF Len(a.items) # Len(b.items)
       THEN Host(FALSE)
       ELSE symand([i \in DOMAIN a.items |-> ScalarEq(a.items[i], b.items[i])])
  ELSE ScalarEq(a, b)

implies(a, b) == App("Implies", <<a, b>>)

\* exists(vars, e) and forall(vars, e) for a list vars of symbolic variables.
exists(bound, e) == IF ~IsSymbolic(e) THEN e ELSE App("Exists", bound \o <<e>>)

forall(bound, e) == IF ~IsSymbolic(e) THEN e ELSE App("ForAll", bound \o <<e>>)

\* The helpers are called outside any exploration; a behaviour records one
\* call.  The bound variable of the quantifiers is not counted among the
\* operands.
CallSymand ==
  /\ helper = "none"
  /\ \E l \in ExprLists :
       helper' = "symand" /\ operands' = l /\ hresult' = symand(l)
  /\ UNCHANGED svars
  /\ UNCHANGED cvars

CallSymor ==
  /\ helper = "none"
  /\ \E l \in ExprLists :
       helper' = "symor" /\ operands' = l /\ hresult' = symor(l)
  /\ UNCHANGED svars
  /\ UNCHANGED cvars

CallSymnot ==
  /\ helper = "none"
  /\ \E e \in Scalars :
       helper' = "symnot" /\ operands' = <<e>> /\ hresult' = symnot(e)
  /\ UNCHANGED svars
  /\ UNCHANGED cvars

CallSymeq ==
  /\ helper = "none"
  /\ \E a, b \in Scalars \cup {Tuple(l) : l \in ExprLists} :
       /\ (a.k = "tuple") = (b.k = "tuple")
       /\ helper' = "symeq" /\ operands' = <<a, b>> /\ hresult' = symeq(a, b)
  /\ UNCHANGED svars
  /\ UNCHANGED cvars

CallImplies ==
  /\ helper = "none"
  /\ \E a, b \in Scalars :
       helper' = "implies" /\ operands' = <<a, b>> /\ hresult' = implies(a, b)
  /\ UNCHANGED svars
  /\ UNCHANGED cvars

CallExists ==
  /\ helper = "none"
  /\ \E e \in Scalars :
       /\ helper' = "exists" /\ operands' = <<e>>
       /\ hresult' = exists(<<Lit(NamedConst("x"), TRUE)>>, e)
  /\ UNCHANGED svars
  /\ UNCHANGED cvars

CallForall ==
  /\ helper = "none"
  /\ \E e \in Scalars :
       /\ helper' = "forall" /\ operands' = <<e>>
       /\ hresult' = forall(<<Lit(NamedConst("x"), TRUE)>>, e)
  /\ UNCHANGED svars
  /\ UNCHANGED cvars

NextHelpers ==
  \/ CallSymand
  \/ CallSymor
  \/ CallSymnot
  \/ CallSymeq
  \/ CallImplies
  \/ CallExists
  \/ CallForall

SpecHelpers == InitNoExploration /\ [][NextHelpers]_vars

\* ---------------------------------------------------------------- claims

PathCondition(i) == results[i].pcond

AnonConsts == {<<"anon", k>> : k \in 1..anon_idx}

InputConsts == {NamedConst(n) : n \in InputNames}

SatisfiedBy(as, a) == \A i \in DOMAIN as : Holds(as[i], a)

\* C1: any two distinct yielded results have path conditions that no
\* assignment of the symbolic constants satisfies together.
C1_PathsDisjoint ==
  \A i, j \in DOMAIN results :
    i < j => ~Satisfiable(PathCondition(i) \o PathCondition(j))

\* C2: when an exploration has run to its end, every assignment of the
\* symbolic constants satisfies the path condition of some yielded result.
C2_PathsCover ==
  outcome = "exhausted" =>
    \A a \in SUBSET (InputConsts \cup AnonConsts) :
      \E i \in DOMAIN results : SatisfiedBy(PathCondition(i), a)

\* A function that calls no assume, raises nothing and observes only Bools
\* both of whose directions the solver decides (at the latest on the retry).
Plain(f) ==
  \A i \in DOMAIN f :
    /\ f[i].op \in {"bool", "anon", "pybool", "var"}
    /\ f[i].op = "bool" => Level(f[i].t) < 2 /\ Level(Not(f[i].t)) < 2

\* C2, amended: for a function that calls no assume, raises nothing and has
\* every feasibility check decided, when the exploration has run to its end
\* every assignment of the named inputs extends, by values for the anonymous
\* constants, to one that satisfies the path condition of some yielded result.
C2_PlainPathsCover ==
  (outcome = "exhausted" /\ Plain(fn)) =>
    \A a \in SUBSET InputConsts :
      \E i \in DOMAIN results : \E b \in SUBSET AnonConsts :
        SatisfiedBy(PathCondition(i), a \cup b)

C2_Witness ==
  /\ outcome = "exhausted"
  /\ Plain(fn)
  /\ Len(results) >= 3
  /\ \E i \in DOMAIN fn : fn[i].op = "bool"

\* C3: the path condition of every yielded result is satisfiable.
C3_YieldedSatisfiable ==
  \A i \in DOMAIN results : Satisfiable(PathCondition(i))

C3_Witness ==
  \E i \in DOMAIN results :
    /\ Len(PathCondition(i)) = 2
    /\ results[i].sched[2] = "F"
    /\ Satisfiable(PathCondition(i))

\* C4: when the replay of a cloned schedule reaches the decision point at
\* which the clone was made, the solver holds the assertions it held there
\* on the path that made the clone.
C4_ReplaySameAssertions ==
  (gen = "running" /\ solver # None /\ curfork.at > 0 /\ curschedidx = curfork.at)
    => Assertions(solver) = curfork.as

PathConditions(rs) == [i \in DOMAIN rs |-> rs[i].pcond]

Schedules(rs) == [i \in DOMAIN rs |-> rs[i].sched]

\* C5: a second run of symbolic_apply(fn) to completion yields the same
\* sequence of path conditions and of schedules as the first.
C5_SecondRunSame ==
  (run = "second" /\ prevoutcome = "exhausted" /\ outcome = "exhausted") =>
    /\ PathConditions(results) = PathConditions(prevresults)
    /\ Schedules(results) = Schedules(prevresults)

\* C6: an exploration started while another has started and not finished
\* is rejected and yields no result.
C6_NestedRejected ==
  \A i \in DOMAIN nestedlog : nestedlog[i] = "rejected"

\* What the program reads through x, through y.f and through m[i].
ReadX == sheap[XCell]

ReadYF == sheap[yf]

ReadM(i) == Getitem(md, i)

\* C7: after y.f <- x (by assignment or by the constructor), x and y.f are
\* independent: y.f reads what x held then, changed only by the writes made
\* through y.f, and x reads what was written through x.
C7_StructAssignCopies ==
  linked # "no" => (ReadYF = expectYF /\ ReadX = expectX)

\* C8: after m[i] <- x, for a struct or a map x, m[i] reads what x held
\* then, changed only by the writes made through m[i], and no step that
\* changes a map changes what x reads.
C8_MapStoreCopies ==
  /\ [](\A i \in Idx : ReadM(i) = expectM[i] /\ Select(mm, i) = expectMM[i])
  /\ [][(md' # md => sheap' = sheap) /\ (mm' # mm => x2' = x2)]_vars

\* x was stored at m[i] and then written (m[i] still reads the old value),
\* and x2 was stored at mm[i] and then written.
C8_Witness ==
  \E i \in storedAt, j \in Idx :
    /\ ReadM(i) # ReadX
    /\ ReadM(i) # ZeroStruct
    /\ mm[j] # x2
    /\ mm[j] # [k \in Idx |-> 0]

BoolAt == gen = "running" /\ pc <= Len(fn) /\ fn[pc].op = "bool" /\ solver # None

CanTrue == CheckWithRetry(Append(Assertions(solver), fn[pc].t))

CanFalse == CheckWithRetry(Append(Assertions(solver), Not(fn[pc].t)))

\* C9: a Bool observed at the end of the schedule with exactly one
\* direction sat and the other unsat appends that direction to cursched,
\* asserts it and queues nothing.
C9_DecidedBranchNoFork ==
  [][\A d \in {"T", "F"} :
       (/\ BoolAt
        /\ Len(cursched) = curschedidx
        /\ CanTrue = (IF d = "T" THEN "sat" ELSE "unsat")
        /\ CanFalse = (IF d = "F" THEN "sat" ELSE "unsat"))
       => /\ cursched' = Append(cursched, d)
          /\ solver' = SolverAdd(solver, IF d = "T" THEN fn[pc].t ELSE Not(fn[pc].t))
          /\ schedq' = schedq
          /\ nqueued' = nqueued
          /\ gen' = "running"]_vars

C9_Witness ==
  /\ gen = "running"
  /\ Len(fn) = 2
  /\ fn[1].op = "bool"
  /\ fn[2] = fn[1]
  /\ pc = 3
  /\ cursched = <<"None", "F", "F">>
  /\ nqueued = 2

\* C10: queue_schedule is called only by symbolic_apply priming the root
\* schedule and by the observation of a symbolic Bool at the end of the
\* schedule; not by assume, a replayed observation or a concrete bool.
C10_QueueGrowth ==
  [][nqueued' # nqueued =>
       \/ gen \in {"new", "done"}
       \/ /\ gen = "running"
          /\ pc <= Len(fn)
          /\ fn[pc].op \in {"bool", "anon"}
          /\ Len(cursched) = curschedidx]_vars

\* A replayed observation followed by an assume that extended the schedule:
\* the root schedule and the one fork are all that was queued.
C10_Witness ==
  /\ gen = "running"
  /\ pc = 3
  /\ fn[1].op = "bool"
  /\ fn[2].op = "assume"
  /\ cursched = <<"None", "F", "None">>
  /\ nqueued = 2

\* fn is about to call assume(e) with a solver active.
AssumeAt == gen = "running" /\ pc <= Len(fn) /\ fn[pc].op = "assume" /\ solver # None

PathDiscarded(q) ==
  /\ results' = results
  /\ outcome' # "raised"
  /\ IF Len(q) > 0
     THEN /\ gen' = "running"
          /\ cursched' = q[PopIndex(q)]
          /\ Len(schedq') = Len(q) - 1
          /\ solver' = NewSolver
          /\ pc' = 1
     ELSE gen' = "done" /\ outcome' = "exhausted"

\* assume(e) is not a no-op and meets the schedule entry it expects.
AssumeExtends ==
  /\ AssumeAt
  /\ fn[pc].t # BoolVal(TRUE)
  /\ IncrementalCheck(Append(Assertions(solver), Not(fn[pc].t))) # "unsat"
  /\ (Len(cursched) = curschedidx \/ cursched[curschedidx + 1] = "None")

\* C12: when the check made by assume(e) after asserting e answers unsat,
\* the path ends without a result and without an exception leaving the
\* generator, and the loop goes on with the queued schedules; a function that
\* starts with assume(False) yields no result.
C12_UnsatPathDiscarded ==
  /\ [][(AssumeExtends /\ CheckWithRetry(Append(Assertions(solver), fn[pc].t)) = "unsat")
        => PathDiscarded(schedq)]_vars
  /\ []((Len(fn) >= 1 /\ fn[1].op = "assume" /\ fn[1].t = BoolVal(FALSE))
        => (results = <<>> /\ outcome # "raised"))

\* if x: assume(Not(x)): the True path was discarded, the False path yielded.
C12_Witness ==
  /\ outcome = "exhausted"
  /\ Len(fn) = 2
  /\ fn[1].op = "bool"
  /\ fn[2].op = "assume"
  /\ fn[2].t = Not(fn[1].t)
  /\ Len(results) = 1
  /\ results[1].sched = <<"None", "F">>

\* C13: when a path raises UncheckableConstraintError (the check made by
\* assume after asserting e answers unknown twice, a replayed Bool observation
\* meets an uncheckable marker, or a Bool observation at the end of the
\* schedule records the marker for the True direction), no result is yielded,
\* no exception leaves the generator and the loop goes on with the queue.
C13_UncheckablePathDiscarded ==
  [][/\ (AssumeExtends /\ CheckWithRetry(Append(Assertions(solver), fn[pc].t)) = "unknown")
          => PathDiscarded(schedq)
     /\ (BoolAt /\ curschedidx < Len(cursched) /\ cursched[curschedidx + 1] \in Markers)
          => PathDiscarded(schedq)
     /\ (BoolAt /\ curschedidx = Len(cursched) /\ CanTrue = "unknown")
          => PathDiscarded(Append(schedq, Append(cursched, ForkAlternative(CanFalse))))]_vars

\* if w: ... with w undecidable in the True direction: the first path was
\* given up, the False path went on and yielded.
C13_Witness ==
  /\ Len(fn) >= 1
  /\ fn[1].op = "bool"
  /\ fn[1].t = Lit(NamedConst("w"), TRUE)
  /\ Len(results) = 1
  /\ results[1].sched[2] = "F"
  /\ gen = "yielded"

\* C14: when fn raises an exception of its own, the exception leaves the
\* generator, the queue is emptied and the solver dropped, even with
\* schedules queued, and no result is yielded afterwards.
C14_ExceptionEndsExploration ==
  /\ [][(gen = "running" /\ pc <= Len(fn) /\ fn[pc].op = "raise")
        => /\ gen' = "done"
           /\ outcome' = "raised"
           /\ results' = results
           /\ schedq' = <<>>
           /\ solver' = None]_vars
  /\ [][outcome = "raised" => (results' = results /\ gen' = "done")]_vars
  /\ [](outcome = "raised" => (schedq = <<>> /\ solver = None))

\* if x: raise: the True path raised with the False schedule still queued.
C14_Witness ==
  /\ outcome = "raised"
  /\ Len(fn) = 2
  /\ fn[1].op = "bool"
  /\ fn[2].op = "raise"
  /\ cursched = <<"None", "T">>
  /\ nqueued = 2
  /\ schedq = <<>>

\* C16: pending schedules are executed in the order in which they were
\* queued: a step that takes a schedule from the queue takes the one at the
\* head, the earliest queued (queue_schedule appends at the tail).
C16_FifoOrder ==
  [][(Len(schedq) > 0 /\ Len(schedq') < Len(schedq) /\ gen' = "running")
     => (cursched' = Head(schedq) /\ schedq' = Tail(schedq))]_vars

\* fn is about to observe a Bool, named or anonymous, at the end of the
\* schedule, with both directions sat.
ForkAt(t) ==
  /\ gen = "running" /\ pc <= Len(fn) /\ solver # None
  /\ Len(cursched) = curschedidx
  /\ CheckWithRetry(Append(Assertions(solver), t)) = "sat"
  /\ CheckWithRetry(Append(Assertions(solver), Not(t))) = "sat"

ObservedTerm ==
  IF fn[pc].op = "anon" THEN Lit(anon_name(anon_idx), TRUE)
  ELSE IF fn[pc].op = "boolnd" THEN ChangingTerm(fn[pc])
  ELSE fn[pc].t

\* The schedules a and b part at a fork where a took True and b took False.
TrueSideOf(a, b) ==
  \E k \in 1..Len(a) :
    /\ k <= Len(b)
    /\ SubSeq(a, 1, k - 1) = SubSeq(b, 1, k - 1)
    /\ a[k] = "T"
    /\ b[k] = "F"

\* C17: at a fork with both directions sat the running path asserts the
\* term and goes on with True in the same invocation of fn, the False
\* alternative is only queued, and the result of the True side of a fork is
\* yielded before the result of its False side.
C17_TrueSideFirst ==
  /\ [][(pc <= Len(fn) /\ fn[pc].op \in {"bool", "anon"} /\ ForkAt(ObservedTerm))
        => /\ cursched' = Append(cursched, "T")
           /\ solver' = SolverAdd(solver, ObservedTerm)
           /\ schedq' = Append(schedq, Append(cursched, "F"))
           /\ gen' = "running"
           /\ pc' > pc
           /\ results' = results]_vars
  /\ [](\A i, j \in DOMAIN results :
          TrueSideOf(results[i].sched, results[j].sched) => i < j)

\* if x: if y: ...: three results, the True sides first.
C17_Witness ==
  /\ Len(results) = 3
  /\ results[1].sched = <<"None", "T", "T">>
  /\ results[2].sched = <<"None", "T", "F">>
  /\ results[3].sched = <<"None", "F">>

\* The names registered by named var() calls on the path of the result r:
\* the path's type table holds the constant of each of them.
RegisteredOn(r) == {c[1] : c \in {d \in r.ct : d[2] = 0}}

\* C18: the constructor map carried by a yielded result holds only names
\* present at the start of the exploration or registered on the result's own
\* path.
C18_OwnPathNames ==
  \A i \in DOMAIN results :
    results[i].vc \subseteq (init_var_constructors \cup RegisteredOn(results[i]))

\* C19: a name registered in var_constructors during an exploration stays in
\* it until the exploration ends, and when the exploration has ended (by
\* exhaustion, close or exception) var_constructors is what it was when the
\* exploration started.
C19_NamesKeptThenRestored ==
  /\ [][(gen \in {"running", "yielded"} /\ gen' \in {"running", "yielded"})
        => var_constructors \subseteq var_constructors']_vars
  /\ []((gen = "done" /\ outcome \in {"exhausted", "closed", "raised"})
        => (var_constructors = InputNames /\ var_constructors = init_var_constructors))

\* A name was registered on a path that yielded, and the exploration ended.
C19_Witness ==
  /\ gen = "done"
  /\ outcome = "closed"
  /\ Len(results) = 2
  /\ "z" \in results[1].vc
  /\ "z" \notin var_constructors

\* C15: when the consumer closes the generator after a result, with or
\* without schedules pending, the queue is emptied and the solver dropped,
\* and a symbolic_apply started afterwards is not rejected: it runs its
\* first path.
C15_CloseReleases ==
  /\ [][(gen = "yielded" /\ gen' = "done")
        => (outcome' \in {"closed", "exhausted"} /\ schedq' = <<>> /\ solver' = None)]_vars
  /\ []((gen = "done" /\ outcome = "closed") => (schedq = <<>> /\ solver = None))
  /\ [][(gen = "done" /\ outcome = "closed" /\ run' # run)
        => /\ gen' = "running"
           /\ outcome' = "none"
           /\ cursched' = RootSched
           /\ schedq' = <<>>
           /\ solver' = NewSolver]_vars

\* The first run was closed after its first result with the False schedule
\* still queued; the second run has yielded both of its results.
C15_Witness ==
  /\ run = "second"
  /\ prevoutcome = "closed"
  /\ Len(prevresults) = 1
  /\ prevresults[1].sched = <<"None", "T">>
  /\ Len(results) = 2
  /\ results[2].sched = <<"None", "F">>

\* Whether every operand is concrete (a Python bool or a tuple of them).
AllConcrete(args) ==
  \A i \in DOMAIN args :
    IF args[i].k = "tuple"
    THEN \A j \in DOMAIN args[i].items : ~IsSymbolic(args[i].items[j])
    ELSE ~IsSymbolic(args[i])

\* C20: a logical helper called with concrete operands only returns a
\* Python bool, not an SBool.
C20_ConcreteGivesHost ==
  (helper # "none" /\ AllConcrete(operands)) => hresult.k = "py"

\* fn is about to observe a Bool, named or anonymous, with a solver active.
ObsAt ==
  /\ gen = "running" /\ pc <= Len(fn) /\ solver # None
  /\ fn[pc].op \in {"bool", "anon", "boolnd"}

ObsCanTrue == CheckWithRetry(Append(Assertions(solver), ObservedTerm))

ObsCanFalse == CheckWithRetry(Append(Assertions(solver), Not(ObservedTerm)))

\* The schedule queued by the step, when the step queued one: the last of
\* the queue when the path went on, and the schedule popped at once when the
\* path ended on the marker of the True direction.
Enqueued == IF ObsCanTrue = "sat" THEN schedq'[Len(schedq')] ELSE cursched'

\* C21: the schedule queued at a fork is as long as the current schedule
\* after the fork, has the current schedule's entries before the decision
\* point and the False direction or its marker at the decision point; the
\* current schedule keeps its earlier entries.
C21_CloneSharesPrefix ==
  [][(ObsAt /\ nqueued' = nqueued + 1)
     => /\ Len(Enqueued) = Len(cursched) + 1
        /\ SubSeq(Enqueued, 1, Len(cursched)) = cursched
        /\ Enqueued[Len(Enqueued)] \in {"F", "UnchkF"}
        /\ ObsCanTrue = "sat" => cursched' = Append(cursched, "T")]_vars

\* if x: if y: ...: the second fork of the first path queued a schedule of
\* three entries.
C21_Witness ==
  /\ gen = "running"
  /\ cursched = <<"None", "T", "T">>
  /\ schedq = <<(<<"None", "F">>), (<<"None", "T", "F">>)>>

\* C22: at a Bool observed at the end of the schedule with one direction
\* sat and the other unknown, the running path asserts the sat direction and
\* goes on within the same invocation of fn, and the schedule queued holds
\* the marker of the unknown direction, whichever direction is the sat one.
C22_SatDirectionContinues ==
  [][/\ (BoolAt /\ Len(cursched) = curschedidx /\ CanTrue = "sat" /\ CanFalse = "unknown")
          => /\ cursched' = Append(cursched, "T")
             /\ solver' = SolverAdd(solver, fn[pc].t)
             /\ schedq' = Append(schedq, Append(cursched, "UnchkF"))
             /\ gen' = "running"
             /\ pc' > pc
     /\ (BoolAt /\ Len(cursched) = curschedidx /\ CanTrue = "unknown" /\ CanFalse = "sat")
          => /\ cursched' = Append(cursched, "F")
             /\ solver' = SolverAdd(solver, Not(fn[pc].t))
             /\ schedq' = Append(schedq, Append(cursched, "UnchkT"))
             /\ gen' = "running"
             /\ pc' > pc]_vars

\* C23: a marker is put into a schedule only for a direction whose check
\* answered unknown, on the retry too; a direction whose check answered
\* unsat is not queued, with or without a marker.
C23_MarkerOnlyForUnknown ==
  [][(ObsAt /\ Len(cursched) = curschedidx)
     => /\ ObsCanFalse = "unsat" => nqueued' = nqueued
        /\ (nqueued' = nqueued + 1 /\ Enqueued[Len(Enqueued)] = "UnchkF")
             => ObsCanFalse = "unknown"]_vars

\* C24: a Bool observed in replay queues nothing; on a True or False entry
\* it asserts the term or its negation, advances curschedidx by one, leaves
\* the schedule alone and returns the entry; on a marker the path ends with
\* the schedule as it was.
C24_ReplayFollowsSchedule ==
  [][(ObsAt /\ curschedidx < Len(cursched))
     => /\ nqueued' = nqueued
        /\ \A d \in {"T", "F"} :
             cursched[curschedidx + 1] = d
               => /\ solver' = SolverAdd(solver, IF d = "T" THEN ObservedTerm
                                                 ELSE Not(ObservedTerm))
                  /\ cursched' = cursched
                  /\ curschedidx' = curschedidx + 1
                  /\ schedq' = schedq
                  /\ pc' = AfterBool(fn[pc], d)
                  /\ gen' = "running"
        /\ cursched[curschedidx + 1] \in Markers
             => /\ PathDiscarded(schedq)
                /\ Len(schedq) = 0 => (cursched' = cursched /\ curschedidx' = curschedidx)]_vars

\* The False schedule of a fork was replayed up to its end.
C24_Witness ==
  /\ gen = "running"
  /\ Len(fn) = 2
  /\ fn[1].op = "bool"
  /\ pc = 2
  /\ cursched = <<"None", "F">>
  /\ curschedidx = 2
  /\ Assertions(solver) = <<Not(fn[1].t)>>

\* C25: the answer acted on is that of the retry on a fresh solver whenever
\* the incremental answer is unknown: for the check of Not(e) and the check
\* after asserting e in assume, and for the two directions of a Bool.
C25_UnknownRetried ==
  [][/\ (AssumeAt /\ fn[pc].t # BoolVal(TRUE)
           /\ CheckWithRetry(Append(Assertions(solver), Not(fn[pc].t))) = "unsat")
          => (cursched' = cursched /\ curschedidx' = curschedidx /\ solver' = solver)
     /\ (AssumeExtends /\ CheckWithRetry(Append(Assertions(solver), fn[pc].t)) = "sat")
          => (gen' = "running" /\ solver' = SolverAdd(solver, fn[pc].t))
     /\ (BoolAt /\ Len(cursched) = curschedidx /\ CanTrue = "sat" /\ CanFalse = "sat")
          => nqueued' = nqueued + 1]_vars

\* C26: a Bool observed at the end of the schedule with both directions
\* unsat ends the generator with the exception: the current schedule is as
\* it was, nothing is queued, no result is added, and no schedule that was
\* waiting in the queue is started.
C26_ContradictionAborts ==
  [][(ObsAt /\ Len(cursched) = curschedidx
        /\ ObsCanTrue = "unsat" /\ ObsCanFalse = "unsat")
     => /\ gen' = "done"
        /\ outcome' = "raised"
        /\ cursched' = cursched
        /\ nqueued' = nqueued
        /\ results' = results
        /\ nstarted' = nstarted
        /\ solver' = None
        /\ schedq' = <<>>]_vars

\* fn observes x, then y on its first invocation and x on the second, then
\* y: the replay of "x, then not the second" asserts x and Not(x), and the
\* third observation finds both directions unsat while the schedule of the
\* False side of x has not been run.
C26_Witness ==
  /\ outcome = "raised"
  /\ Len(fn) = 3
  /\ fn[2].op = "boolnd"
  /\ pc = 3
  /\ fn[3].op = "bool"
  /\ cursched = <<"None", "T", "F">>
  /\ nqueued = 3
  /\ nstarted = 2
  /\ Len(results) = 1

\* C27: the step that starts a path leaves a solver without assertions,
\* the schedule index 1 and an empty type table, whatever the path before it
\* asserted or registered.
C27_FreshPathState ==
  [][(nstarted' = nstarted + 1)
     => /\ gen' = "running"
        /\ pc' = 1
        /\ solver' = NewSolver
        /\ curschedidx' = 1
        /\ constTypes' = {}]_vars

\* The second path starts after a first path that asserted a term and
\* registered the type of an anonymous Bool.
C27_Witness ==
  /\ gen = "running"
  /\ pc = 1
  /\ nstarted = 2
  /\ Len(results) = 1
  /\ results[1].ct # {}
  /\ Len(results[1].pcond) > 0
  /\ solver = NewSolver
  /\ constTypes = {}

\* C28: from the start of a path to the end of the exploration the schedule
\* index is between 1 and the length of the current schedule; the current
\* schedule, every queued schedule and the schedule of every result start
\* with the root entry; and when a result has been yielded the index is the
\* length of the current schedule.
C28_IndexWithinSchedule ==
  /\ gen \in {"running", "yielded"}
       => (1 <= curschedidx /\ curschedidx <= Len(cursched))
  /\ gen # "new" => cursched[1] = "None"
  /\ \A i \in DOMAIN schedq : schedq[i][1] = "None"
  /\ \A i \in DOMAIN results : results[i].sched[1] = "None"
  /\ gen = "yielded" => curschedidx = Len(cursched)

\* if x: if y: ...: the second path replayed the schedule "x, then not y"
\* to its end and its result has been yielded.
C28_Witness ==
  /\ gen = "yielded"
  /\ nstarted = 2
  /\ cursched = <<"None", "T", "F">>
  /\ curschedidx = 3
  /\ Len(results) = 2

\* fn is about to call assume(e) for an e that is not the Python True and
\* that the first check does not find implied.
NonImpliedAssumeAt ==
  /\ AssumeAt
  /\ fn[pc].t # BoolVal(TRUE)
  /\ ~Implied(Assertions(solver), fn[pc].t)

\* C29: in replay a Bool about to be observed has a True, False or marker
\* entry next in the schedule and a non-implied assume about to be called has
\* a None entry next; the generator ends with an exception only when fn
\* itself raises.
C29_ReplayEntriesMatch ==
  /\ (ObsAt /\ curschedidx < Len(cursched))
       => cursched[curschedidx + 1] \in {"T", "F"} \cup Markers
  /\ (NonImpliedAssumeAt /\ curschedidx < Len(cursched))
       => cursched[curschedidx + 1] = "None"
  /\ outcome = "raised" => (pc <= Len(fn) /\ fn[pc].op = "raise")

\* assume(e); if y: ...: the second path replayed the None entry of the
\* assume and then the False entry of the fork on y.
C29_Witness ==
  /\ gen = "yielded"
  /\ nstarted = 2
  /\ Len(fn) = 2
  /\ fn[1].op = "assume"
  /\ fn[2].op = "bool"
  /\ cursched = <<"None", "None", "F">>
  /\ curschedidx = 3

\* C30: the generator eventually finishes with the queue empty; while it
\* has not finished every schedule queued so far has been started once or
\* is still in the queue, and when the queue runs out every schedule queued
\* has been started.
C30_Terminates ==
  /\ <>(gen = "done" /\ schedq = <<>>)
  /\ [](gen \in {"running", "yielded"} => nqueued = nstarted + Len(schedq))
  /\ [](outcome = "exhausted" => (nstarted = nqueued /\ gen = "done"))

\* if x: if y: ...: the four schedules queued have all been run and the
\* generator has finished.
C30_Witness ==
  /\ gen = "done"
  /\ outcome = "exhausted"
  /\ nqueued = 4
  /\ nstarted = 4
  /\ Len(results) = 4
  /\ schedq = <<>>

\* C31: while the generator is suspended at its yield no solver is active,
\* and a step that leaves it suspended (a Bool observation or an assume of
\* the consumer) changes neither the current schedule nor the queue.
C31_NoSolverWhileSuspended ==
  [][gen = "yielded"
     => /\ solver = None
        /\ gen' = "yielded" => /\ cursched' = cursched
                               /\ schedq' = schedq
                               /\ nqueued' = nqueued]_vars

\* C32: the step of a symbolic_apply that is rejected as recursive changes
\* neither the queue nor the current graph.
C32_RejectedLeavesState ==
  [][(Len(nestedlog') = Len(nestedlog) + 1 /\ nestedlog'[Len(nestedlog')] = "rejected")
     => /\ schedq' = schedq
        /\ curgraph' = curgraph]_vars

====
